---- MODULE Spec2Model ----
(***************************************************************************)
(* slowbin: a throttled streaming pass-through cache (src/slowbin.py).     *)
(*                                                                         *)
(* The model has two specifications.                                       *)
(*   Spec          the request handler fetch() and the generator stream()  *)
(*                 run by concurrent sessions against one Redis key pair   *)
(*                 (url, url:mimetype) and one origin server.              *)
(*   SpecValidate  validate_url applied to every URL of a bounded set.     *)
(* Bytes are numbers; the origin body of length B is <<1, 2, ..., B>>, so  *)
(* that a lost, repeated or reordered byte is visible.  Time is counted in *)
(* integer quanta.                                                         *)
(***************************************************************************)
EXTENDS Integers, Sequences, FiniteSets, TLC

\* ---------------------------------------------------------------- config
\* Values imported from config.py.  CHUNK_SIZE, RATE_LIMIT and CACHE_TIME
\* are scaled down; LENGTH_LIMIT is drawn in Init from LengthLimits, once a
\* multiple of CHUNK_SIZE and once not.
CHUNK_SIZE == 2
RATE_LIMIT == 4
CACHE_TIME == 2
DEFAULT_MIMETYPE == "default/mimetype"
LengthLimits == {CHUNK_SIZE + 1, 2 * CHUNK_SIZE}

\* messages.py
ERROR_CONTENT_HEADER == "ERROR_CONTENT_HEADER"
ERROR_CONTENT_HEADER_NOT_INT == "ERROR_CONTENT_HEADER_NOT_INT"
ERROR_CONTENT_LENGTH == "ERROR_CONTENT_LENGTH"
ERROR_LOCAL_URL == "ERROR_LOCAL_URL"
ERROR_BAD_HOSTNAME == "ERROR_BAD_HOSTNAME"
ERROR_BAD_URL == "ERROR_BAD_URL"
ERROR_SCHEME_NOT_SPECIFIED == "ERROR_SCHEME_NOT_SPECIFIED"

\* ---------------------------------------------------------------- bounds
MaxRequests == 2
MaxUrlLen == 5

\* Two request handlers run side by side; a handler that has finished a
\* request takes the next one.
Sessions == {1, 2}
NoTTL == -1

Min(a, b) == IF a < b THEN a ELSE b

\* ------------------------------------------------------------------ URLs
\* A URL is a sequence of characters over a small alphabet: a letter, a
\* digit, and the delimiters urlparse looks at.
UrlChars == {"h", "1", ":", "/", "["}
SchemeChars == {"h", "1"}
Digits == {"1"}

RECURSIVE SeqsUpTo(_, _)
SeqsUpTo(S, n) ==
    IF n = 0 THEN {<<>>}
    ELSE LET shorter == SeqsUpTo(S, n - 1)
         IN  shorter \cup {Append(q, c) : q \in {r \in shorter : Len(r) = n - 1}, c \in S}

\* str.find: the 1-based index of the first occurrence of one of the
\* characters cs at or after position from, 0 if there is none.
Find(str, cs, from) ==
    LET hits == {i \in from .. Len(str) : str[i] \in cs}
    IN  IF hits = {} THEN 0 ELSE CHOOSE i \in hits : \A j \in hits : i <= j

Drop(str, n) == SubSeq(str, n + 1, Len(str))

\* urlparse.urlsplit of Python 2.7, as far as scheme and netloc go.  The
\* result is [ok, scheme, netloc]; ok = FALSE stands for the ValueError
\* raised on an unbalanced bracket in the netloc.
urlparse(url) ==
    LET i == Find(url, {":"}, 1)
        rest == Drop(url, i)
        isScheme == /\ i > 1
                    /\ \A k \in 1 .. i - 1 : url[k] \in SchemeChars
                    /\ (rest = <<>> \/ \E k \in 1 .. Len(rest) : rest[k] \notin Digits)
        scheme == IF isScheme THEN SubSeq(url, 1, i - 1) ELSE <<>>
        u == IF isScheme THEN rest ELSE url
        hasNetloc == Len(u) >= 2 /\ u[1] = "/" /\ u[2] = "/"
        delim == Find(u, {"/"}, 3)
        netloc == IF ~hasNetloc THEN <<>>
                  ELSE IF delim = 0 THEN Drop(u, 2)
                  ELSE SubSeq(u, 3, delim - 1)
    IN  [ok |-> \A k \in 1 .. Len(netloc) : netloc[k] # "[",
         scheme |-> scheme,
         netloc |-> netloc]

\* What socket.gethostbyname can answer for a name.
DnsAnswers == {"fail", "127.0.0.1", "203.0.113.7"}

\* Mutant of validate_url: the hostname is resolved before the scheme is
\* looked at.
validate_url_ResolveFirst(url, dns) ==
    LET o == urlparse(url)
    IN  IF ~o.ok THEN [valid |-> FALSE, error |-> ERROR_BAD_URL, lookups |-> 0]
        ELSE IF o.netloc = <<>> THEN [valid |-> FALSE, error |-> ERROR_BAD_URL, lookups |-> 0]
        ELSE IF dns = "fail" THEN [valid |-> FALSE, error |-> ERROR_BAD_HOSTNAME, lookups |-> 1]
        ELSE IF dns = "127.0.0.1" THEN [valid |-> FALSE, error |-> ERROR_LOCAL_URL, lookups |-> 1]
        ELSE IF o.scheme = <<>>
             THEN [valid |-> FALSE, error |-> ERROR_SCHEME_NOT_SPECIFIED, lookups |-> 1]
        ELSE [valid |-> TRUE, error |-> "", lookups |-> 1]

\* Mutant of validate_url: the scheme is looked at before the authority
\* component.
validate_url_SchemeFirst(url, dns) ==
    LET o == urlparse(url)
    IN  IF ~o.ok THEN [valid |-> FALSE, error |-> ERROR_BAD_URL, lookups |-> 0]
        ELSE IF o.scheme = <<>>
             THEN [valid |-> FALSE, error |-> ERROR_SCHEME_NOT_SPECIFIED, lookups |-> 0]
        ELSE IF o.netloc = <<>> THEN [valid |-> FALSE, error |-> ERROR_BAD_URL, lookups |-> 0]
        ELSE IF dns = "fail" THEN [valid |-> FALSE, error |-> ERROR_BAD_HOSTNAME, lookups |-> 1]
        ELSE IF dns = "127.0.0.1" THEN [valid |-> FALSE, error |-> ERROR_LOCAL_URL, lookups |-> 1]
        ELSE [valid |-> TRUE, error |-> "", lookups |-> 1]

\* validate_url(url); dns is the answer gethostbyname gives for o.netloc.
\* lookups counts the calls of gethostbyname.
validate_url(url, dns) ==
    LET o == urlparse(url)
    IN  IF ~o.ok THEN [valid |-> FALSE, error |-> ERROR_BAD_URL, lookups |-> 0]
        ELSE IF o.netloc = <<>> THEN [valid |-> FALSE, error |-> ERROR_BAD_URL, lookups |-> 0]
        ELSE IF o.scheme = <<>>
             THEN [valid |-> FALSE, error |-> ERROR_SCHEME_NOT_SPECIFIED, lookups |-> 0]
        ELSE IF dns = "fail" THEN [valid |-> FALSE, error |-> ERROR_BAD_HOSTNAME, lookups |-> 1]
        ELSE IF dns = "127.0.0.1" THEN [valid |-> FALSE, error |-> ERROR_LOCAL_URL, lookups |-> 1]
        ELSE [valid |-> TRUE, error |-> "", lookups |-> 1]

\* ----------------------------------------------------------------- Redis
\* The two records of the one resource key: the content blob under the URL
\* and the mimetype under URL + ':mimetype'.  A record is absent or holds a
\* value; ttl is NoTTL or the number of ticks left.
ContentKey == "url"
MimeKey == "url:mimetype"
Keys == {ContentKey, MimeKey}
Absent(k) == [present |-> FALSE, val |-> IF k = ContentKey THEN <<>> ELSE "", ttl |-> NoTTL]

exists(r, k) == r[k].present

expire(r, k, t) == IF r[k].present THEN [r EXCEPT ![k].ttl = t] ELSE r

get(r, k) == IF r[k].present THEN r[k].val ELSE "None"

strlen(r, k) == IF r[k].present THEN Len(r[k].val) ELSE 0

\* GETRANGE key start end, both inclusive and 0-based, clipped to the value.
getrange(r, k, start, end) ==
    IF r[k].present THEN SubSeq(r[k].val, start + 1, Min(end + 1, Len(r[k].val))) ELSE <<>>

\* SET discards a TTL the key had.
set(r, k, v) == [r EXCEPT ![k] = [present |-> TRUE, val |-> v, ttl |-> NoTTL]]

\* APPEND creates the key when it is absent and keeps the TTL otherwise.
append(r, k, bytes) ==
    IF r[k].present THEN [r EXCEPT ![k].val = @ \o bytes]
    ELSE [r EXCEPT ![k] = [present |-> TRUE, val |-> bytes, ttl |-> NoTTL]]

\* One tick of Redis' clock: every TTL counts down and a key whose TTL runs
\* out is deleted.
tick(r) ==
    [k \in Keys |->
        IF r[k].ttl = NoTTL THEN r[k]
        ELSE IF r[k].ttl = 1 THEN Absent(k)
        ELSE [r[k] EXCEPT !.ttl = @ - 1]]

\* ------------------------------------------------------- source adapters
\* Python 2 range(start, stop, step) as a sequence.
range(start, stop, step) ==
    [i \in 1 .. (IF stop > start THEN (stop - start + step - 1) \div step ELSE 0)
        |-> start + (i - 1) * step]

\* chunk_sizes of cache_iterator: the boundaries.
chunk_sizes(length) ==
    LET r == range(0, length, CHUNK_SIZE)
    IN  IF length % CHUNK_SIZE # 0 THEN Append(r, length) ELSE r

\* zip(chunk_sizes, chunk_sizes[1:]): the pairs cache_iterator walks; the
\* pair <<a, b>> is read with getrange(url, a, b - 1), the bytes [a, b).
cache_iterator(length) ==
    LET cs == chunk_sizes(length)
    IN  [i \in 1 .. (IF Len(cs) = 0 THEN 0 ELSE Len(cs) - 1) |-> <<cs[i], cs[i + 1]>>]

\* The origin body of length n.
Body(n) == [i \in 1 .. n |-> i]

\* requests_iterator: the next non-empty chunk of the origin's body after
\* pos bytes, at most o.unit bytes long.
requests_iterator(o, pos) == SubSeq(Body(o.body), pos + 1, Min(pos + o.unit, o.body))

\* ----------------------------------------------------------------- state
VARIABLES
    LENGTH_LIMIT,   \* config.LENGTH_LIMIT
    url,            \* the URL every request asks for
    dns,            \* what gethostbyname answers for its host
    origin,         \* the origin server's answer to HEAD and GET of url
    latency,        \* what a measurement time() - start shows beyond the sleep
    requested,      \* the rate the requests ask for
    redis,          \* the two Redis records of url
    sess,           \* per session: the locals of fetch() and stream()
    nreq,           \* requests started so far
    populated,      \* history: a miss has run to its end and set the TTLs
                    \*   of the content record now stored
    v_url, v_dns, v_res   \* SpecValidate: the input and result of validate_url

vars == <<LENGTH_LIMIT, url, dns, origin, latency, requested, redis, sess, nreq, populated, v_url, v_dns, v_res>>
env == <<LENGTH_LIMIT, url, dns, origin, latency, requested>>
vvars == <<v_url, v_dns, v_res>>

\* The time a measurement of time() - start can show beyond the sleep: none
\* (transfers take no time) or one quantum.
Elapsed == {0, 1}
\* The rates requests ask for.
Rates == {0, RATE_LIMIT + 1}

GoodUrl == <<"h", ":", "/", "/", "h">>

\* An origin: the HEAD status, whether HEAD carries a content-type, the
\* content-length header (hdr: "missing", "notint" or "int", and then its
\* value clen), the length of the body GET streams and the size of the
\* chunks iter_content hands out.
Origin(ok, ctype, hdr, clen, body, unit) ==
    [ok |-> ok, ctype |-> ctype, hdr |-> hdr, clen |-> clen, body |-> body, unit |-> unit]

Origins(limit) ==
    \* well-behaved: the body has the declared length, in CHUNK_SIZE units
    {Origin(TRUE, TRUE, "int", l, l, CHUNK_SIZE) : l \in 0 .. limit}
    \* no content-type header
    \cup {Origin(TRUE, FALSE, "int", CHUNK_SIZE + 1, CHUNK_SIZE + 1, CHUNK_SIZE)}
    \* the transport hands out shorter chunks
    \cup {Origin(TRUE, TRUE, "int", limit, limit, 1)}
    \* the body is longer than declared, and longer than the limit allows
    \cup {Origin(TRUE, TRUE, "int", CHUNK_SIZE, limit + 2 * CHUNK_SIZE + 1, CHUNK_SIZE)}
    \* the error answers
    \cup {Origin(FALSE, TRUE, "int", CHUNK_SIZE, CHUNK_SIZE, CHUNK_SIZE),
          Origin(TRUE, TRUE, "missing", 0, CHUNK_SIZE, CHUNK_SIZE),
          Origin(TRUE, TRUE, "notint", 0, CHUNK_SIZE, CHUNK_SIZE),
          Origin(TRUE, TRUE, "int", limit + 1, limit + 1, CHUNK_SIZE)}

\* URLs that fail validation, with the DNS answer that matters.
BadUrls ==
    {<< <<"h">>, "203.0.113.7" >>,                      \* no netloc, no scheme
     << <<"/", "/", "h">>, "203.0.113.7" >>,            \* netloc, no scheme
     << <<"h", ":", "/", "/", "[">>, "203.0.113.7" >>,  \* urlparse raises
     << GoodUrl, "fail" >>,
     << GoodUrl, "127.0.0.1" >>}

\* validate_url has not returned yet.
Pending == [valid |-> FALSE, error |-> "pending", lookups |-> 0]

IdleSession ==
    [pc |-> "idle",
     rate |-> 0, cached |-> FALSE, length |-> 0, mimetype |-> "",
     chunks |-> 0, total_size |-> 0, sleep |-> 0,
     pos |-> 0,            \* bytes the origin iterator has handed out
     emitted |-> <<>>,     \* the units yielded to the caller
     appended |-> 0,       \* units this session appended to the content record
     ttl_steps |-> 0,      \* expire calls made by the tail of stream()
     budget |-> 0,         \* the rate stream() was called with
     sleeps |-> <<>>,      \* the sleep taken after each unit, 0 for none
     outcome |-> "",
     heads |-> 0, gets |-> 0, lookups |-> 0,   \* origin HEADs, GETs, DNS lookups
     effects |-> {},       \* what this session changed in Redis: "data", "ttl"
     since |-> {},         \* sessions whose request began after this one
     conc |-> FALSE,       \* another session was running while this one was
     sawExpiry |-> FALSE]  \* a record expired since this request began

Active(t) == sess[t].pc \notin {"idle", "done"}

\* What a step from Redis state r to r2 changed.
Effects(r, r2) ==
    (IF \E k \in Keys : r2[k].present # r[k].present \/ r2[k].val # r[k].val
     THEN {"data"} ELSE {})
    \cup (IF \E k \in Keys : r2[k].ttl # r[k].ttl THEN {"ttl"} ELSE {})

\* Session s moves to the locals new and leaves Redis as r2.
Step(s, new, r2) ==
    /\ sess' = [sess EXCEPT ![s] = [new EXCEPT !.effects = @ \cup Effects(redis, r2)]]
    /\ redis' = r2

\* The request ends with outcome; the frame's pacing locals are gone.
Done(rec, outcome) ==
    [rec EXCEPT !.pc = "done", !.outcome = outcome,
                !.rate = 0, !.chunks = 0, !.sleep = 0, !.pos = 0]

\* Redis is empty and no request has arrived.  The configuration, the URL,
\* the origin and the timing are fixed for the run; a run whose requests
\* ask for rate 0 never sleeps, so its measurements are taken as 0.
Init ==
    /\ LENGTH_LIMIT \in LengthLimits
    /\ \/ url = GoodUrl /\ dns = "203.0.113.7" /\ origin \in Origins(LENGTH_LIMIT)
       \/ /\ \E b \in BadUrls : url = b[1] /\ dns = b[2]
          /\ origin = Origin(TRUE, TRUE, "int", CHUNK_SIZE, CHUNK_SIZE, CHUNK_SIZE)
    /\ requested \in Rates
    /\ latency \in (IF requested = 0 THEN {0} ELSE Elapsed)
    /\ redis = [k \in Keys |-> Absent(k)]
    /\ sess = [s \in Sessions |-> IdleSession]
    /\ nreq = 0
    /\ populated = FALSE
    /\ v_url = <<>> /\ v_dns = "fail" /\ v_res = Pending

\* ----------------------------------------------------------------- fetch
\* The generator's for statement in origin-fetch mode: requests_iterator
\* hands out the next chunk, which is yielded, or is exhausted and the loop
\* ends.  The first call issues the GET.  Nothing shared is read here, so
\* the step is taken together with the one that leads to it.
OriginNext(rec) ==
    LET got == [rec EXCEPT !.gets = 1]
    IN  IF rec.pos < origin.body
        THEN LET chunk == requests_iterator(origin, rec.pos)
             IN  [got EXCEPT !.pc = "yielded", !.pos = @ + Len(chunk),
                             !.emitted = Append(@, chunk)]
        ELSE [got EXCEPT !.pc = "expire"]

\* Mutant of Admit: the HEAD request is sent before the URL is validated.
AdmitHeadFirst(rec) ==
    LET v == validate_url(url, dns)
        hd == [rec EXCEPT !.heads = 1, !.lookups = v.lookups]
    IN  IF ~v.valid THEN Done(hd, v.error)
        ELSE IF ~origin.ok THEN Done(hd, "ORIGIN_STATUS")
        ELSE IF origin.hdr = "missing" THEN Done(hd, ERROR_CONTENT_HEADER)
        ELSE IF origin.hdr = "notint" THEN Done(hd, ERROR_CONTENT_HEADER_NOT_INT)
        ELSE IF origin.clen > LENGTH_LIMIT THEN Done(hd, ERROR_CONTENT_LENGTH)
        ELSE [hd EXCEPT !.pc = "set_mime",
                        !.mimetype = IF origin.ctype THEN "content/type" ELSE DEFAULT_MIMETYPE,
                        !.length = origin.clen]

\* The miss path of fetch() from validate_url to the check of the length:
\* the locals after it, at the redis.set or aborted.  It reads nothing
\* shared.
Admit(rec) ==
    LET v == validate_url(url, dns)
        val == [rec EXCEPT !.lookups = v.lookups]
        hd == [val EXCEPT !.heads = 1]
    IN  IF ~v.valid THEN Done(val, v.error)
        ELSE IF ~origin.ok THEN Done(hd, "ORIGIN_STATUS")
        ELSE IF origin.hdr = "missing" THEN Done(hd, ERROR_CONTENT_HEADER)
        ELSE IF origin.hdr = "notint" THEN Done(hd, ERROR_CONTENT_HEADER_NOT_INT)
        ELSE IF origin.clen > LENGTH_LIMIT THEN Done(hd, ERROR_CONTENT_LENGTH)
        ELSE [hd EXCEPT !.pc = "set_mime",
                        !.mimetype = IF origin.ctype THEN "content/type" ELSE DEFAULT_MIMETYPE,
                        !.length = origin.clen]

\* Mutant of Clamp: the requested rate is passed on as it is.
ClampNever(r) == r

\* The rate clamp of fetch().
Clamp(r) == IF r > RATE_LIMIT THEN RATE_LIMIT ELSE r

\* fetch(rate, url) up to its first write: the rate is clamped and
\* redis.exists(url) picks the hit path or the miss path; on the miss path
\* the URL is validated and the origin's HEAD examined.
Fetch(s) ==
    /\ sess[s].pc \in {"idle", "done"}
    \* handlers are interchangeable: a fresh one is taken in order
    /\ \A t \in Sessions : t < s => sess[t].pc # "idle"
    /\ nreq < MaxRequests
    /\ nreq' = nreq + 1
    /\ LET hit == exists(redis, ContentKey)
           begun == [IdleSession EXCEPT
                      !.rate = Clamp(requested),
                      !.cached = hit,
                      !.conc = \E t \in Sessions \ {s} : Active(t)]
           new == IF hit THEN [begun EXCEPT !.pc = "hit_expire"] ELSE Admit(begun)
       IN  sess' = [t \in Sessions |->
                      IF t = s THEN new
                      ELSE [sess[t] EXCEPT
                              !.conc = @ \/ Active(t),
                              !.since = IF sess[t].pc = "idle" THEN @ ELSE @ \cup {s}]]
    /\ UNCHANGED <<env, redis, populated, vvars>>

\* redis.expire(url, CACHE_TIME)
HitExpireUrl(s) ==
    /\ sess[s].pc = "hit_expire"
    /\ Step(s, [sess[s] EXCEPT !.pc = "hit_expire_m"], expire(redis, ContentKey, CACHE_TIME))
    /\ UNCHANGED <<env, nreq, populated, vvars>>

\* redis.expire(url + ':mimetype', CACHE_TIME)
HitExpireMime(s) ==
    /\ sess[s].pc = "hit_expire_m"
    /\ Step(s, [sess[s] EXCEPT !.pc = "hit_get"], expire(redis, MimeKey, CACHE_TIME))
    /\ UNCHANGED <<env, nreq, populated, vvars>>

\* mimetype = redis.get(url + ':mimetype')
HitGet(s) ==
    /\ sess[s].pc = "hit_get"
    /\ Step(s, [sess[s] EXCEPT !.pc = "hit_strlen", !.mimetype = get(redis, MimeKey)], redis)
    /\ UNCHANGED <<env, nreq, populated, vvars>>

\* length = redis.strlen(url); rate = rate - (time() - start);
\* stream(url, length, rate, True), whose first lines compute chunks.
HitStrlen(s) ==
    /\ sess[s].pc = "hit_strlen"
    /\ LET length == strlen(redis, ContentKey)
       IN  Step(s, [sess[s] EXCEPT !.pc = "stream",
                                   !.length = length,
                                   !.rate = @ - latency,
                                   !.budget = sess[s].rate - latency,
                                   !.chunks = length \div CHUNK_SIZE], redis)
    /\ UNCHANGED <<env, nreq, populated, vvars>>

\* redis.set(url + ':mimetype', mimetype); rate = rate - (time() - start);
\* stream(url, length, rate, False), whose first lines compute chunks and
\* whose loop asks the origin for the first chunk.
SetMime(s) ==
    /\ sess[s].pc = "set_mime"
    /\ Step(s, OriginNext([sess[s] EXCEPT !.rate = @ - latency,
                                          !.budget = sess[s].rate - latency,
                                          !.chunks = sess[s].length \div CHUNK_SIZE]),
            set(redis, MimeKey, sess[s].mimetype))
    /\ UNCHANGED <<env, nreq, populated, vvars>>

\* ---------------------------------------------------------------- stream
\* The size accounting of stream(): total_size += CHUNK_SIZE per unit.
Accounted(total_size) == total_size + CHUNK_SIZE

\* Mutant of GuardFires: the guard lets one more unit through.
GuardFiresLate(total_size, limit) == total_size > limit + CHUNK_SIZE

\* The guard of stream(): if total_size > LENGTH_LIMIT: return
GuardFires(total_size, limit) == total_size > limit

\* Mutant of WriteThrough: the unit is appended in cache-read mode too.
WriteThroughAlways(cached, r, chunk) == append(r, ContentKey, chunk)

\* The write-through step of stream(): if not cached: redis.append(url, chunk)
WriteThrough(cached, r, chunk) == IF cached THEN r ELSE append(r, ContentKey, chunk)

\* The generator's for statement in cache-read mode: cache_iterator reads
\* the next range from Redis and the chunk is yielded, or the ranges are
\* exhausted and the generator ends.
CacheNext(s) ==
    /\ sess[s].pc = "stream"
    /\ LET rec == sess[s]
           k == Len(rec.emitted) + 1
           pairs == cache_iterator(rec.length)
       IN  IF k <= Len(pairs)
           THEN LET chunk == getrange(redis, ContentKey, pairs[k][1], pairs[k][2] - 1)
                IN  Step(s, [rec EXCEPT !.pc = "yielded", !.emitted = Append(@, chunk)], redis)
           ELSE Step(s, Done(rec, "exhausted"), redis)
    /\ UNCHANGED <<env, nreq, populated, vvars>>

\* Mutant of Pace: the whole remaining budget is slept after every unit.
PaceWholeBudget(rate, chunks) == IF rate > 0 THEN rate ELSE 0

\* The sleep of stream(): if rate > 0 and chunks > 0: sleep(rate / chunks).
\* 0 stands for no sleep.  Time is counted in whole ticks.
Pace(rate, chunks) == IF rate > 0 /\ chunks > 0 THEN rate \div chunks ELSE 0

\* The bookkeeping of stream() after the write-through: chunks -= 1;
\* rate -= time() - chunk_start; total_size += CHUNK_SIZE.  The time since
\* chunk_start is the sleep taken before this unit and the transfer time.
Counted(rec) ==
    [rec EXCEPT !.chunks = @ - 1,
                !.rate = @ - (rec.sleep + latency),
                !.total_size = Accounted(@),
                !.appended = IF rec.cached THEN @ ELSE @ + 1]

\* Mutant of Slept: a cache-read session is not paced.
SleptOriginOnly(rec) ==
    LET sleep == IF rec.cached THEN 0 ELSE Pace(rec.rate, rec.chunks)
    IN  [rec EXCEPT !.pc = "stream", !.sleep = sleep, !.sleeps = Append(@, sleep)]

\* The end of the loop body of stream(): chunk_start = time() and the sleep.
Slept(rec) ==
    LET sleep == Pace(rec.rate, rec.chunks)
    IN  [rec EXCEPT !.pc = "stream", !.sleep = sleep, !.sleeps = Append(@, sleep)]

\* Mutant of AfterYield: the size guard is tested before the write-through,
\* so the unit that trips it is not appended.
AfterYieldGuardFirst(s) ==
    /\ sess[s].pc = "yielded"
    /\ LET rec == sess[s]
           chunk == rec.emitted[Len(rec.emitted)]
           upd == Counted(rec)
       IN  IF GuardFires(upd.total_size, LENGTH_LIMIT)
           THEN Step(s, Done(upd, "guard"), redis)
           ELSE Step(s, IF rec.cached THEN Slept(upd) ELSE OriginNext(Slept(upd)),
                     WriteThrough(rec.cached, redis, chunk))
    /\ UNCHANGED <<env, nreq, populated, vvars>>

\* The caller asks for the next unit: the generator resumes after the yield
\* and runs the rest of the loop body, up to the sleep; in origin-fetch mode
\* on to the next yield.
AfterYield(s) ==
    /\ sess[s].pc = "yielded"
    /\ LET rec == sess[s]
           chunk == rec.emitted[Len(rec.emitted)]
           upd == Counted(rec)
       IN  Step(s,
                IF GuardFires(upd.total_size, LENGTH_LIMIT) THEN Done(upd, "guard")
                ELSE IF rec.cached THEN Slept(upd)
                ELSE OriginNext(Slept(upd)),
                WriteThrough(rec.cached, redis, chunk))
    /\ UNCHANGED <<env, nreq, populated, vvars>>

\* Mutant of Disconnect: closing the generator runs the TTL-setting tail, as
\* a finally clause would.
DisconnectRunsTail(s) ==
    /\ sess[s].pc = "yielded"
    /\ Step(s, Done([sess[s] EXCEPT !.ttl_steps = IF sess[s].cached THEN 0 ELSE 2], "cancelled"),
            IF sess[s].cached THEN redis
            ELSE expire(expire(redis, ContentKey, CACHE_TIME), MimeKey, CACHE_TIME))
    /\ UNCHANGED <<env, nreq, populated, vvars>>

\* The caller goes away while the generator is suspended at the yield: the
\* generator is closed there and runs no further statement.
Disconnect(s) ==
    /\ sess[s].pc = "yielded"
    /\ Step(s, Done(sess[s], "cancelled"), redis)
    /\ UNCHANGED <<env, nreq, populated, vvars>>

\* After the loop, if not cached: redis.expire(url, CACHE_TIME)
StreamExpireUrl(s) ==
    /\ sess[s].pc = "expire"
    /\ Step(s, [sess[s] EXCEPT !.pc = "expire_m", !.ttl_steps = 1],
            expire(redis, ContentKey, CACHE_TIME))
    /\ UNCHANGED <<env, nreq, populated, vvars>>

\* redis.expire(url + ':mimetype', CACHE_TIME), the generator's last line.
StreamExpireMime(s) ==
    /\ sess[s].pc = "expire_m"
    /\ Step(s, Done([sess[s] EXCEPT !.ttl_steps = 2], "exhausted"),
            expire(redis, MimeKey, CACHE_TIME))
    /\ populated' = (populated \/ exists(redis, ContentKey))
    /\ UNCHANGED <<env, nreq, vvars>>

\* Redis' clock advances by one tick.
Tick ==
    /\ \E k \in Keys : redis[k].ttl # NoTTL
    /\ redis' = tick(redis)
    /\ sess' = [t \in Sessions |->
                  IF sess[t].pc # "idle" /\ \E k \in Keys : redis[k].present /\ ~redis'[k].present
                  THEN [sess[t] EXCEPT !.sawExpiry = TRUE] ELSE sess[t]]
    /\ populated' = (populated /\ redis'[ContentKey].present)
    /\ UNCHANGED <<env, nreq, vvars>>

Next ==
    \/ \E s \in Sessions : Fetch(s)
    \/ \E s \in Sessions : HitExpireUrl(s)
    \/ \E s \in Sessions : HitExpireMime(s)
    \/ \E s \in Sessions : HitGet(s)
    \/ \E s \in Sessions : HitStrlen(s)
    \/ \E s \in Sessions : SetMime(s)
    \/ \E s \in Sessions : CacheNext(s)
    \/ \E s \in Sessions : AfterYield(s)
    \/ \E s \in Sessions : Disconnect(s)
    \/ \E s \in Sessions : StreamExpireUrl(s)
    \/ \E s \in Sessions : StreamExpireMime(s)
    \/ Tick

Spec == Init /\ [][Next]_vars

\* ---------------------------------------------------------- SpecValidate
InitValidate ==
    /\ LENGTH_LIMIT = 2 * CHUNK_SIZE
    /\ url = GoodUrl /\ dns = "203.0.113.7"
    /\ origin = Origin(TRUE, TRUE, "int", CHUNK_SIZE, CHUNK_SIZE, CHUNK_SIZE)
    /\ latency = 0
    /\ requested = 0
    /\ redis = [k \in Keys |-> Absent(k)]
    /\ sess = [s \in Sessions |-> IdleSession]
    /\ nreq = 0
    /\ populated = FALSE
    /\ v_url \in SeqsUpTo(UrlChars, MaxUrlLen)
    /\ v_dns \in DnsAnswers
    /\ v_res = Pending

\* valid, error = validate_url(url)
RunValidate ==
    /\ v_res = Pending
    /\ v_res' = validate_url(v_url, v_dns)
    /\ UNCHANGED <<env, redis, sess, nreq, populated, v_url, v_dns>>

NextValidate == RunValidate

SpecValidate == InitValidate /\ [][NextValidate]_vars

\* ------------------------------------------------------------ SpecPacing
\* One handler serves requests for a resource of up to PacingUnits units one
\* after the other; the origin keeps its word.
PacingUnits == 4

PacingLimit == PacingUnits * CHUNK_SIZE - 1

PacingRates == {0, 1, RATE_LIMIT, RATE_LIMIT + 1}

InitPacing ==
    /\ LENGTH_LIMIT = PacingLimit
    /\ url = GoodUrl /\ dns = "203.0.113.7"
    /\ \E l \in 0..PacingLimit : origin = Origin(TRUE, TRUE, "int", l, l, CHUNK_SIZE)
    /\ requested \in PacingRates
    /\ latency \in Elapsed
    /\ redis = [k \in Keys |-> Absent(k)]
    /\ sess = [s \in Sessions |-> IdleSession]
    /\ nreq = 0
    /\ populated = FALSE
    /\ v_url = <<>> /\ v_dns = "fail" /\ v_res = Pending

\* The handler that serves the requests.
Handler == CHOOSE s \in Sessions : \A t \in Sessions : s <= t

NextPacing ==
    \/ Fetch(Handler)
    \/ HitExpireUrl(Handler)
    \/ HitExpireMime(Handler)
    \/ HitGet(Handler)
    \/ HitStrlen(Handler)
    \/ SetMime(Handler)
    \/ CacheNext(Handler)
    \/ AfterYield(Handler)
    \/ Disconnect(Handler)
    \/ StreamExpireUrl(Handler)
    \/ StreamExpireMime(Handler)
    \/ Tick

SpecPacing == InitPacing /\ [][NextPacing]_vars

\* ================================================================ claims
RECURSIVE Concat(_)
\* The concatenation of a sequence of units.
Concat(units) == IF units = <<>> THEN <<>> ELSE Head(units) \o Concat(Tail(units))

CeilDiv(a, b) == (a + b - 1) \div b

ValidatorErrors ==
    {ERROR_BAD_URL, ERROR_SCHEME_NOT_SPECIFIED, ERROR_BAD_HOSTNAME, ERROR_LOCAL_URL}
ErrorOutcomes ==
    ValidatorErrors \cup
    {"ORIGIN_STATUS", ERROR_CONTENT_HEADER, ERROR_CONTENT_HEADER_NOT_INT, ERROR_CONTENT_LENGTH}

IsDone(s) == sess[s].pc = "done"

\* The origin sends the body it declared, in CHUNK_SIZE units.
WellBehaved == origin.hdr = "int" /\ origin.body = origin.clen /\ origin.unit = CHUNK_SIZE

\* Session s ran with no other session running beside it.
Alone(s) == ~sess[s].conc

\* C1: round trip.  When a miss has streamed to exhaustion with no other
\* session beside it, and the URL is then requested once more before any
\* record expired, and that second request has run to its end, then the
\* second request was a cache read and emitted, concatenated, the same
\* bytes as the first.
C1_RoundTrip ==
    \A a, b \in Sessions :
        (/\ a # b
         /\ IsDone(a) /\ ~sess[a].cached /\ sess[a].outcome = "exhausted"
         /\ Alone(a) /\ ~sess[a].sawExpiry /\ sess[a].since = {b}
         /\ IsDone(b) /\ sess[b].outcome # "cancelled")
        => /\ sess[b].cached
           /\ Concat(sess[b].emitted) = Concat(sess[a].emitted)

\* The ranges p are consecutive from 0, each CHUNK_SIZE wide but for a
\* shorter last one, and cover exactly [0, n).
Covers(p, n) ==
    /\ Len(p) = CeilDiv(n, CHUNK_SIZE)
    /\ \A i \in 1 .. Len(p) :
          /\ p[i][1] = (i - 1) * CHUNK_SIZE
          /\ p[i][2] = Min(i * CHUNK_SIZE, n)

\* C2: for the length of every cache-read session, the ranges
\* cache_iterator reads are consecutive, start at 0, are CHUNK_SIZE wide but
\* for a shorter last one, and cover exactly [0, length), in
\* ceil(length / CHUNK_SIZE) units.
C2_RangesCover ==
    \A s \in Sessions :
        sess[s].cached => Covers(cache_iterator(sess[s].length), sess[s].length)

\* C3: end-to-end miss.  When a miss on a well-behaved origin of declared
\* length L has delivered the whole body and ended, alone, then it emitted
\* ceil(L / CHUNK_SIZE) units, the content record holds the L origin bytes,
\* the mimetype record exists, and both carry a TTL.
C3_EndToEndMiss ==
    \A s \in Sessions :
        (/\ IsDone(s) /\ ~sess[s].cached /\ sess[s].outcome \in {"exhausted", "guard"}
         /\ WellBehaved /\ Len(Concat(sess[s].emitted)) = origin.body
         /\ Alone(s) /\ sess[s].since = {} /\ ~sess[s].sawExpiry)
        => /\ Len(sess[s].emitted) = CeilDiv(origin.clen, CHUNK_SIZE)
           /\ strlen(redis, ContentKey) = origin.clen
           /\ getrange(redis, ContentKey, 0, origin.clen) = Body(origin.clen)
           /\ redis[ContentKey].present => redis[ContentKey].ttl # NoTTL
           /\ redis[MimeKey].present /\ redis[MimeKey].ttl # NoTTL

\* C4: every error outcome of a miss is decided before anything happens: a
\* session that ended in an error emitted no unit, issued no GET and changed
\* nothing in Redis (no value, no expiry), and after a validator error it
\* issued no HEAD either.
C4_ErrorsBeforeEffects ==
    \A s \in Sessions :
        (IsDone(s) /\ sess[s].outcome \in ErrorOutcomes)
        => /\ sess[s].emitted = <<>>
           /\ sess[s].gets = 0
           /\ sess[s].effects = {}
           /\ sess[s].appended = 0 /\ sess[s].ttl_steps = 0
           /\ sess[s].outcome \in ValidatorErrors => sess[s].heads = 0
           /\ sess[s].outcome \notin ValidatorErrors => sess[s].heads = 1

\* C4 witness: a request was refused for its declared length, after the HEAD.
C4_Witness ==
    \E s \in Sessions :
        IsDone(s) /\ sess[s].outcome = ERROR_CONTENT_LENGTH /\ sess[s].heads = 1

\* C5 as claimed: every URL in which urlparse finds no scheme is answered
\* with ERROR_SCHEME_NOT_SPECIFIED.
C5_Original ==
    (v_res # Pending /\ urlparse(v_url).scheme = <<>>)
    => v_res.error = ERROR_SCHEME_NOT_SPECIFIED

\* C5 amended: every URL that parses, has an authority component and has no
\* scheme is answered with ERROR_SCHEME_NOT_SPECIFIED, whatever its host
\* resolves to; a URL without scheme and without authority component, or
\* one urlparse rejects, is answered with ERROR_BAD_URL.
C5_SchemeNotSpecified ==
    (v_res # Pending /\ urlparse(v_url).scheme = <<>>)
    => /\ ~v_res.valid
       /\ v_res.error = IF urlparse(v_url).ok /\ urlparse(v_url).netloc # <<>>
                        THEN ERROR_SCHEME_NOT_SPECIFIED ELSE ERROR_BAD_URL

\* C5 witness: a scheme-less URL whose host is loopback was answered with
\* ERROR_SCHEME_NOT_SPECIFIED.
C5_Witness ==
    /\ v_res.error = ERROR_SCHEME_NOT_SPECIFIED
    /\ v_dns = "127.0.0.1"
    /\ urlparse(v_url).scheme = <<>>

Streaming(s) == sess[s].pc \in {"stream", "yielded", "expire", "expire_m"}

\* C6: size guard.  In either mode a session never emits more than
\* LENGTH_LIMIT + CHUNK_SIZE bytes; once the accounted size exceeds
\* LENGTH_LIMIT the stream has ended (a session still streaming has
\* accounted at most LENGTH_LIMIT); a session that emitted more than
\* LENGTH_LIMIT bytes is suspended at that unit's yield or has ended by the
\* guard or by the caller; and the guard fires at unit
\* LENGTH_LIMIT div CHUNK_SIZE + 1, after which no unit is emitted.
C6_SizeGuard ==
    \A s \in Sessions :
        /\ Len(Concat(sess[s].emitted)) <= LENGTH_LIMIT + CHUNK_SIZE
        /\ Streaming(s) => sess[s].total_size <= LENGTH_LIMIT
        /\ Len(Concat(sess[s].emitted)) > LENGTH_LIMIT
             => \/ sess[s].pc = "yielded"
                \/ IsDone(s) /\ sess[s].outcome \in {"guard", "cancelled"}
        /\ (IsDone(s) /\ sess[s].outcome = "guard")
             => Len(sess[s].emitted) = LENGTH_LIMIT \div CHUNK_SIZE + 1
        /\ Len(sess[s].emitted) <= LENGTH_LIMIT \div CHUNK_SIZE + 1

\* C6 witness: an origin whose body is longer than it declared was cut off
\* by the guard after more than LENGTH_LIMIT bytes.
C6_Witness ==
    \E s \in Sessions :
        /\ IsDone(s) /\ ~sess[s].cached /\ sess[s].outcome = "guard"
        /\ origin.body > origin.clen
        /\ Len(Concat(sess[s].emitted)) > LENGTH_LIMIT

IsPrefix(p, q) == Len(p) <= Len(q) /\ SubSeq(q, 1, Len(p)) = p

\* C7: once a miss has run to its end and set the TTLs, the content stored
\* under the key does not change for as long as the key exists; before
\* that, the content record changes only by appends.
C7_Immutable ==
    [][(redis[ContentKey].present /\ redis'[ContentKey].present)
          => /\ IsPrefix(redis[ContentKey].val, redis'[ContentKey].val)
             /\ populated => redis'[ContentKey].val = redis[ContentKey].val]_vars

\* C8: the two records live and die together: neither exists without the
\* other, and a hit that is about to read them finds a TTL on both.
C8_RecordsTogether ==
    /\ redis[ContentKey].present <=> redis[MimeKey].present
    /\ \A s \in Sessions :
          sess[s].pc \in {"hit_get", "hit_strlen"}
          => \A k \in Keys : redis[k].present => redis[k].ttl # NoTTL

\* C9: a cache hit, from its lookup to the end of its cache-read stream,
\* changes no value in Redis: it sets nothing and appends nothing.  Its only
\* effect is on the expiry of the records.
C9_HitWritesNothing ==
    \A s \in Sessions :
        sess[s].cached
        => /\ "data" \notin sess[s].effects
           /\ sess[s].appended = 0
           /\ sess[s].ttl_steps = 0

\* C9 witness: a hit has streamed the cached content to its end and
\* refreshed an expiry on its way.
C9_Witness ==
    \E s \in Sessions :
        /\ IsDone(s) /\ sess[s].cached /\ sess[s].outcome = "exhausted"
        /\ Len(sess[s].emitted) >= 1
        /\ sess[s].effects = {"ttl"}

\* C10: cancellation.  A session whose caller went away at a yielded unit
\* has appended every unit it emitted but that last one (none in cache-read
\* mode), and in origin-fetch mode has never run the TTL-setting tail; when
\* no other session ran beside it or began after it, the records it wrote
\* carry no TTL.
C10_Cancellation ==
    \A s \in Sessions :
        (IsDone(s) /\ sess[s].outcome = "cancelled")
        => /\ sess[s].appended = (IF sess[s].cached THEN 0 ELSE Len(sess[s].emitted) - 1)
           /\ ~sess[s].cached
                => /\ sess[s].ttl_steps = 0
                   /\ (Alone(s) /\ sess[s].since = {})
                        => /\ redis[MimeKey].present
                           /\ \A k \in Keys : redis[k].ttl = NoTTL
                           /\ redis[ContentKey].val
                                = Concat(SubSeq(sess[s].emitted, 1, Len(sess[s].emitted) - 1))

\* C10 witness: a miss was cancelled after it had appended a unit, and the
\* partial content record and the mimetype record have no TTL.
C10_Witness ==
    \E s \in Sessions :
        /\ IsDone(s) /\ ~sess[s].cached /\ sess[s].outcome = "cancelled"
        /\ sess[s].appended >= 1
        /\ redis[ContentKey].present /\ redis[ContentKey].ttl = NoTTL
        /\ redis[MimeKey].present /\ redis[MimeKey].ttl = NoTTL

RECURSIVE Sum(_)
\* The sum of a sequence of numbers.
Sum(seq) == IF seq = <<>> THEN 0 ELSE Head(seq) + Sum(Tail(seq))

\* Session s has emitted the last unit of the origin's body.
FinalUnitEmitted(s) ==
    /\ ~sess[s].cached
    /\ sess[s].emitted # <<>>
    /\ Len(Concat(sess[s].emitted)) = origin.body

\* The sleeps session s took before it emitted its latest unit.
SleptBefore(s) == Sum(SubSeq(sess[s].sleeps, 1, Len(sess[s].emitted) - 1))

\* C11: when the transfers take no time and the budget R handed to the
\* streamer is positive, the sleeps taken before the final unit of a resource
\* of N >= 1 units is emitted add up to R.
C11_Convergence ==
    \A s \in Sessions :
        (latency = 0 /\ sess[s].budget > 0 /\ FinalUnitEmitted(s))
            => SleptBefore(s) = sess[s].budget

\* Session s has called stream().
Entered(s) == Streaming(s) \/ (IsDone(s) /\ sess[s].outcome \notin ErrorOutcomes)

\* C12: a request is never refused for its rate: every error outcome has its
\* cause in the URL or in the origin's HEAD answer; and the budget stream()
\* is entered with, on the hit path and on the miss path, is at most the
\* smaller of the requested rate and RATE_LIMIT.
C12_RateClamp ==
    \A s \in Sessions :
        /\ Entered(s) => sess[s].budget <= Min(requested, RATE_LIMIT)
        /\ (IsDone(s) /\ sess[s].outcome \in ErrorOutcomes)
              => \/ ~validate_url(url, dns).valid
                 \/ ~origin.ok
                 \/ origin.hdr # "int"
                 \/ origin.clen > LENGTH_LIMIT

\* A rate above RATE_LIMIT was requested, and a miss and a hit both stream
\* with the clamped rate less the time spent.
C12_Witness ==
    /\ requested > RATE_LIMIT
    /\ \E s, t \in Sessions :
          /\ Streaming(s) /\ sess[s].cached /\ sess[s].budget = RATE_LIMIT - latency
          /\ Entered(t) /\ ~sess[t].cached /\ sess[t].budget = RATE_LIMIT - latency

\* Session s is a cache read that streamed to its end while the records
\* it reads stayed in Redis.
HitComplete(s) ==
    /\ IsDone(s) /\ sess[s].cached
    /\ sess[s].outcome \in {"exhausted", "guard"}
    /\ ~sess[s].sawExpiry

\* C13: whatever the interleaving with other sessions, a cache read of a
\* resource whose origin keeps its word delivers the whole resource: the
\* bytes it emitted by its end are the origin's content of the declared
\* length, not a prefix of it and nothing else.
C13_HitDeliversAll ==
    \A s \in Sessions :
        (WellBehaved /\ HitComplete(s)) => Concat(sess[s].emitted) = Body(origin.clen)

\* C14: the size guard fires only when the body is longer than the declared
\* length.  An origin-fetch session for an admitted resource whose origin
\* sends exactly the declared length in CHUNK_SIZE units, and whose caller
\* stays, is not ended by the guard: it ends by exhaustion, having set the
\* TTL of both records.
C14_GuardOnlyOnMismatch ==
    \A s \in Sessions :
        (/\ WellBehaved /\ origin.clen <= LENGTH_LIMIT
         /\ IsDone(s) /\ ~sess[s].cached
         /\ sess[s].outcome \notin ErrorOutcomes \cup {"cancelled"})
            => sess[s].outcome = "exhausted" /\ sess[s].ttl_steps = Cardinality(Keys)

\* The sleep session s took after its latest unit, between units.
LastSleep(s) == sess[s].sleeps[Len(sess[s].sleeps)]

\* What holds of the pacing of session s in every state.  Between units the
\* locals rate and chunks are the remaining budget and the remaining unit
\* count the sleep was decided on.
PacingState(s) ==
    /\ (Streaming(s) /\ sess[s].sleeps # <<>>) =>
          /\ LastSleep(s) > 0 => (sess[s].rate > 0 /\ sess[s].chunks > 0)
          /\ (sess[s].rate > 0 /\ sess[s].chunks > 0)
                => LastSleep(s) = sess[s].rate \div sess[s].chunks
          /\ LastSleep(s) >= 0
    /\ (Entered(s) /\ sess[s].budget <= 0) => Sum(sess[s].sleeps) = 0
    /\ (Entered(s) /\ sess[s].budget > 0) => Sum(sess[s].sleeps) <= sess[s].budget

\* What holds of the pacing of session s in every step.
PacingStep(s) ==
    (Streaming(s) /\ Streaming(s)') => sess'[s].rate <= sess[s].rate

\* C15: after a unit the streamer sleeps exactly when the remaining budget
\* and the remaining unit count are both positive, and then for the budget
\* divided by the count (in whole ticks); the remaining budget never grows
\* while a session streams; a session entered with no budget never sleeps;
\* and the sleeps of a session never add up to more than the budget it was
\* entered with.
C15_PacingRule ==
    /\ [](\A s \in Sessions : PacingState(s))
    /\ [][\A s \in Sessions : PacingStep(s)]_vars

\* Transfers take time; a session slept after its first unit and had used
\* up its budget after the second, with units still to come.
C15_Witness ==
    \E s \in Sessions :
        /\ latency > 0 /\ Streaming(s)
        /\ Len(sess[s].sleeps) > 1
        /\ sess[s].sleeps[1] > 0
        /\ LastSleep(s) = 0 /\ sess[s].chunks > 0 /\ sess[s].rate <= 0

\* The bytes stored under the content key, none when the key is absent.
Stored(r) == IF r[ContentKey].present THEN r[ContentKey].val ELSE <<>>

\* Session s resumes after a yield in this step.
Resumes(s) == sess[s].pc = "yielded" /\ sess'[s].total_size # sess[s].total_size

\* What holds of the write-through of an origin-fetch session s in every
\* state: it has appended all the units it emitted but the one it is
\* suspended at, and what it appended is, in order, what it emitted (seen
\* in the record for as long as no other request wrote to it or let it
\* expire).
WriteThroughState(s) ==
    (~sess[s].cached /\ Entered(s)) =>
        /\ sess[s].appended =
             Len(sess[s].emitted)
               - (IF sess[s].pc = "yielded" \/ sess[s].outcome = "cancelled" THEN 1 ELSE 0)
        /\ (Alone(s) /\ sess[s].since = {} /\ ~sess[s].sawExpiry)
              => Stored(redis) = Concat(SubSeq(sess[s].emitted, 1, sess[s].appended))

\* What holds of it in every step: when the session resumes after a yield,
\* the unit it had emitted last is put at the end of the content record,
\* also when the step ends in the size guard.
WriteThroughStep(s) ==
    (~sess[s].cached /\ Resumes(s)) =>
        /\ Stored(redis') = Stored(redis) \o sess[s].emitted[Len(sess[s].emitted)]
        /\ sess'[s].appended = sess[s].appended + 1

\* C16: an origin-fetch session appends each unit after it has emitted it
\* and before it takes the next one from the origin: the bytes it has
\* appended are, in order, a prefix of the bytes it has emitted, behind by
\* at most one unit, and the unit that trips the size guard is appended too.
C16_WriteThroughOrder ==
    /\ [](\A s \in Sessions : WriteThroughState(s))
    /\ [][\A s \in Sessions : WriteThroughStep(s)]_vars

\* An origin-fetch session was ended by the size guard after several units
\* and the content record holds all it emitted, the last unit included.
C16_Witness ==
    \E s \in Sessions :
        /\ IsDone(s) /\ ~sess[s].cached /\ sess[s].outcome = "guard"
        /\ Len(sess[s].emitted) > 1
        /\ sess[s].appended = Len(sess[s].emitted)
        /\ Stored(redis) = Concat(sess[s].emitted)

\* The units after which session s has resumed.
Processed(s) == sess[s].total_size \div CHUNK_SIZE

\* The size guard ended session s at its i-th unit.
GuardAt(s, i) == sess[s].outcome = "guard" /\ Processed(s) = i

\* The origin-fetch session a and the cache-read session b were given the
\* same length and the same budget, and the same first k units.
SameInput(a, b, k) ==
    /\ ~sess[a].cached /\ Entered(a)
    /\ sess[b].cached /\ Entered(b)
    /\ sess[a].length = sess[b].length
    /\ sess[a].budget = sess[b].budget
    /\ k <= Min(Processed(a), Processed(b))
    /\ SubSeq(sess[a].emitted, 1, k) = SubSeq(sess[b].emitted, 1, k)

\* C17: the pacing does not depend on the adapter.  When an origin-fetch
\* session and a cache-read session were given the same length, the same
\* budget and the same first k units, then they took the same sleep after
\* each of these units, the size guard ended both or neither at each of
\* them, and where both stand after the same unit their remaining budget
\* and remaining unit count agree.
C17_AdapterIndependence ==
    \A a, b \in Sessions : \A k \in 1..Processed(a) :
        SameInput(a, b, k) =>
            /\ GuardAt(a, k) <=> GuardAt(b, k)
            /\ (k <= Len(sess[a].sleeps) /\ k <= Len(sess[b].sleeps))
                  => sess[a].sleeps[k] = sess[b].sleeps[k]
            /\ (Streaming(a) /\ Streaming(b) /\ Processed(a) = k /\ Processed(b) = k)
                  => /\ sess[a].rate = sess[b].rate
                     /\ sess[a].chunks = sess[b].chunks

\* An origin-fetch session and a cache-read session with the same length
\* and budget both slept after the same first unit.
C17_Witness ==
    \E a, b \in Sessions :
        /\ SameInput(a, b, 1)
        /\ sess[a].sleeps # <<>> /\ Head(sess[a].sleeps) > 0
        /\ sess[b].sleeps # <<>> /\ Head(sess[b].sleeps) > 0

\* The four checks on the URL validated, each taken by itself.
ParseOrAuthorityFails == ~urlparse(v_url).ok \/ urlparse(v_url).netloc = <<>>

SchemeFails == urlparse(v_url).scheme = <<>>

ResolutionFails == v_dns = "fail"

LoopbackFails == v_dns = "127.0.0.1"

\* C18: validate_url answers with the error of the first check that fails,
\* in the order parse or authority (ERROR_BAD_URL), scheme
\* (ERROR_SCHEME_NOT_SPECIFIED), resolution (ERROR_BAD_HOSTNAME), loopback
\* (ERROR_LOCAL_URL); it answers valid exactly when none fails; and it calls
\* the resolver at most once, and only when the first two checks passed.
C18_FirstFailingCheck ==
    v_res # Pending =>
        /\ v_res.error =
              IF ParseOrAuthorityFails THEN ERROR_BAD_URL
              ELSE IF SchemeFails THEN ERROR_SCHEME_NOT_SPECIFIED
              ELSE IF ResolutionFails THEN ERROR_BAD_HOSTNAME
              ELSE IF LoopbackFails THEN ERROR_LOCAL_URL
              ELSE ""
        /\ v_res.valid <=> ~(ParseOrAuthorityFails \/ SchemeFails
                               \/ ResolutionFails \/ LoopbackFails)
        /\ v_res.lookups <= 1
        /\ v_res.lookups = 1 <=> ~(ParseOrAuthorityFails \/ SchemeFails)

\* A URL with neither scheme nor authority component whose name does not
\* resolve fails three checks and was answered with the first one's error,
\* the resolver not having been called.
C18_Witness ==
    /\ v_res # Pending
    /\ ParseOrAuthorityFails /\ SchemeFails /\ ResolutionFails
    /\ urlparse(v_url).ok /\ v_url # <<>>
    /\ v_res.error = ERROR_BAD_URL /\ v_res.lookups = 0

====
